---- MODULE Spec2Model ----
(***************************************************************************)
(* A model of the document-retrieval core of oip_chat_agent:               *)
(*   my_agent/rag/vector_store.py   FAISSVectorStore                       *)
(*   my_agent/rag/chunker.py        SemanticChunker                        *)
(*   my_agent/tools/rag_tool.py     the module-level singleton and tools   *)
(*   scripts/ingest_documents.py    main                                   *)
(* Scores 1/(1+d) are kept as exact fractions [num, den]; vectors have     *)
(* small integer coordinates, so squared L2 distances are integers.        *)
(***************************************************************************)
EXTENDS Integers, Sequences, FiniteSets, TLC

VARIABLES
    stores,      \* the FAISSVectorStore objects of the process, by object id
    indexFile,   \* <index_path>/index.faiss
    dataFile,    \* <index_path>/metadata.json
    savePc,      \* position inside save(): 0 = not saving
    lastOp,      \* the last operation of the sequential caller and its outcome
    committed,   \* history: the store content written by the last completed save
    g_vector_store,  \* rag_tool._vector_store: 0 for None, else an object id
    threads,     \* the threads calling into one store or into rag_tool
    chunker,     \* a SemanticChunker and the locals of its chunk_document call
    ingest       \* the locals of main() of scripts/ingest_documents.py

callerVars == <<savePc, lastOp, committed>>
diskVars == <<indexFile, dataFile>>
threadVars == <<g_vector_store, threads>>

storeVars == <<stores, diskVars, callerVars, threadVars>>

vars == <<storeVars, chunker, ingest>>

----------------------------------------------------------------------------
(* Bounds of the model *)

MaxVecs == 2      \* most entries a store's arrays hold; also the longest batch
MaxStores == 2    \* most FAISSVectorStore objects rag_tool constructs in a run
MaxDocLen == 6    \* longest document text of the small corpus, in characters
MaxDocs == 2      \* most documents an ingestion run loads

----------------------------------------------------------------------------
(* Values *)

Max(a, b) == IF a >= b THEN a ELSE b
Min(a, b) == IF a <= b THEN a ELSE b

\* Python's None for DocumentChunk.embedding (models.py: Optional[List[float]])
None == <<>>

\* self.index = None
NoIndex == [none |-> TRUE, d |-> 0, vecs |-> <<>>]

\* faiss.IndexFlatL2(d): an empty flat index of dimension d
IndexFlatL2(d) == [none |-> FALSE, d |-> d, vecs |-> <<>>]

\* the dimensions a store is constructed with; the second is the default
Dims == {1, 2}
DefaultDim == 2

\* the chunk texts of the corpus
ChunkTexts == <<"tA", "tB">>

\* the embedder: one fixed vector of width DefaultDim per text
Embed(i) == <<<<0, 0>>, <<0, 1>>>>[i]

\* ChunkMetadata.model_dump() of the i-th chunk
Meta(i) == [source |-> "doc.txt", chunk_index |-> i - 1,
            total_chunks |-> Len(ChunkTexts)]

\* DocumentChunk objects handed to add_documents: the embedding is attached
\* or still None
ChunkOf(i, e) ==
    [text |-> ChunkTexts[i], metadata |-> Meta(i),
     embedding |-> IF e THEN Embed(i) ELSE None]

ChunkPool ==
    { ChunkOf(i, e) : i \in 1..Len(ChunkTexts), e \in BOOLEAN }

Batches == UNION { [1..n -> ChunkPool] : n \in 0..MaxVecs }

Vectors(d) == [1..d -> 0..1]

\* similarity thresholds, as fractions; 3/10 is RAGConfig.SIMILARITY_THRESHOLD
Thresholds == { [num |-> 0, den |-> 1], [num |-> 3, den |-> 10],
                [num |-> 1, den |-> 2], [num |-> 1, den |-> 1] }

\* the threads of the process
Threads == {"t1", "t2"}

\* a thread outside any call
\* (embeds and searches count the calls of get_embedding and of
\* vector_store.search the current call of a tool function has made; asked
\* is the top_k argument the caller passed)
NoResponse == [status |-> "none", results |-> <<>>, context |-> "", message |-> "none"]
IdleThread == [pc |-> "idle", op |-> "none", ref |-> 0, top_k |-> 0, q |-> <<>>,
               rows |-> <<>>, chunks |-> <<>>, i |-> 0, embeddings |-> <<>>,
               embeds |-> 0, searches |-> 0, asked |-> 0, resp |-> NoResponse]

\* SemanticChunker(chunk_size, overlap) before any call; texts are sequences
\* of one-character strings
NewChunker(chunk_size, overlap, content) ==
    [chunk_size |-> chunk_size, overlap |-> overlap, content |-> content,
     pc |-> "constructed", paragraphs |-> <<>>, p |-> 0, chunks |-> <<>>,
     current_chunk |-> <<>>, text |-> <<>>, start |-> 0, para_chunks |-> <<>>,
     result |-> <<>>]

\* the chunker of a process that chunks nothing
IdleChunker == NewChunker(0, 0, <<>>)

\* main() of ingest_documents.py on the loaded documents, after
\* vector_store.create_index(): all_chunks is empty, no batch was embedded.
\* (chunked keeps the list as chunk_documents returned it, before holds the
\* index files as the run found them, failed tells that an embedding batch
\* raised or came back short)
NewIngest(documents, batch_size, ifile, dfile) ==
    [pc |-> "chunk_documents", documents |-> documents, batch_size |-> batch_size,
     k |-> 1, all_chunks |-> <<>>, i |-> 0, count |-> 0,
     chunked |-> <<>>, before |-> <<ifile, dfile>>, failed |-> FALSE]

\* a process that does not run the ingestion script
IdleIngest == [NewIngest(<<>>, 0, 0, 0) EXCEPT !.pc = "none"]

\* FAISSVectorStore.__init__
NewStore(d) == [dimension |-> d, index |-> NoIndex, metadata |-> <<>>, texts |-> <<>>]

----------------------------------------------------------------------------
(* FAISSVectorStore: the methods as functions of the object's fields *)

\* create_index: a new empty index of the store's dimension, arrays reset
create_index(st) ==
    [st EXCEPT !.index = IndexFlatL2(st.dimension), !.metadata = <<>>, !.texts = <<>>]

\* the count property: index.ntotal, or 0 without an index
count(st) == IF st.index.none THEN 0 ELSE Len(st.index.vecs)

\* one iteration of the for loop of add_documents on chunk c: the embedding
\* goes to the local list, metadata and text to the store's arrays
AddAppend(acc, c) ==
    [embeddings |-> Append(acc.embeddings, c.embedding),
     store |-> [acc.store EXCEPT !.metadata = Append(@, c.metadata),
                                 !.texts = Append(@, c.text)],
     raised |-> FALSE]

RECURSIVE AddLoop(_, _, _)
\* the for loop of add_documents from chunk i on; it stops at the first chunk
\* without an embedding, keeping what the earlier iterations appended
AddLoop(chunks, i, acc) ==
    IF i > Len(chunks) THEN acc
    ELSE IF chunks[i].embedding = None THEN [acc EXCEPT !.raised = TRUE]
    ELSE AddLoop(chunks, i + 1, AddAppend(acc, chunks[i]))

\* np.array(embeddings, dtype=float32) followed by index.add(vectors): numpy
\* refuses ragged rows and faiss refuses rows whose width is not index.d
RowsFit(embeddings, d) == \A j \in 1..Len(embeddings) : Len(embeddings[j]) = d

\* index.add(vectors)
IndexAdd(index, embeddings) == [index EXCEPT !.vecs = @ \o embeddings]

\* an add that passes over the chunks without an embedding
add_documentsSkippingMissing(st0, chunks) ==
    LET st1 == IF st0.index.none THEN create_index(st0) ELSE st0
        given == SelectSeq(chunks, LAMBDA c : c.embedding # None)
        r == AddLoop(given, 1, [embeddings |-> <<>>, store |-> st1, raised |-> FALSE])
    IN  IF r.embeddings = <<>>
        THEN [store |-> r.store, ret |-> "ok", n |-> 0]
        ELSE [store |-> [r.store EXCEPT !.index = IndexAdd(@, r.embeddings)],
              ret |-> "ok", n |-> Len(r.embeddings)]

\* add_documents(chunks): [store, ret, n]
add_documents(st0, chunks) ==
    LET st1 == IF st0.index.none THEN create_index(st0) ELSE st0
        r == AddLoop(chunks, 1, [embeddings |-> <<>>, store |-> st1, raised |-> FALSE])
    IN  IF r.raised
        THEN [store |-> r.store, ret |-> "ValueError", n |-> 0]
        ELSE IF r.embeddings = <<>>
        THEN [store |-> r.store, ret |-> "ok", n |-> 0]
        ELSE IF ~RowsFit(r.embeddings, r.store.index.d)
        THEN [store |-> r.store, ret |-> "AssertionError", n |-> 0]
        ELSE [store |-> [r.store EXCEPT !.index = IndexAdd(@, r.embeddings)],
              ret |-> "ok", n |-> Len(r.embeddings)]

RECURSIVE SumSq(_, _, _)
SumSq(u, v, i) ==
    IF i > Len(u) THEN 0 ELSE (u[i] - v[i]) * (u[i] - v[i]) + SumSq(u, v, i + 1)

\* the squared Euclidean distance IndexFlatL2 reports
L2(u, v) == SumSq(u, v, 1)

\* the orders in which a flat index may rank its n vectors for query q: any
\* order by non-decreasing distance (faiss leaves the order of ties open)
FaissOrders(index, q) ==
    LET n == Len(index.vecs)
    IN  { p \in [1..n -> 1..n] :
            /\ \A i, j \in 1..n : i # j => p[i] # p[j]
            /\ \A i, j \in 1..n :
                 i < j => L2(index.vecs[p[i]], q) <= L2(index.vecs[p[j]], q) }

\* an index search that ranks the farthest vector first
IndexSearchFarthest(index, q, k, p) ==
    [j \in 1..k |->
        IF j <= Len(index.vecs)
        THEN [dist |-> L2(index.vecs[p[Len(index.vecs) + 1 - j]], q),
              idx |-> p[Len(index.vecs) + 1 - j] - 1]
        ELSE [dist |-> 0, idx |-> -1]]

\* index.search(query_vector, top_k) under order p: k rows (distance, id),
\* nearest first, padded with id -1 when the index holds fewer than k vectors
IndexSearch(index, q, k, p) ==
    [j \in 1..k |->
        IF j <= Len(index.vecs)
        THEN [dist |-> L2(index.vecs[p[j]], q), idx |-> p[j] - 1]
        ELSE [dist |-> 0, idx |-> -1]]

\* a conversion that forgets the reciprocal
ScoreNotInverted(dist) == [num |-> 1 + dist, den |-> 1]

\* score = 1 / (1 + float(dist))
Score(dist) == [num |-> 1, den |-> 1 + dist]

\* a < b on fractions with positive denominators
FracLess(a, b) == a.num * b.den < b.num * a.den

RECURSIVE SearchLoop(_, _, _, _, _)
\* the for loop of search over the rows: skip id < 0 and score < threshold,
\* else read texts[idx] and metadata[idx]; a missing entry is an IndexError
SearchLoop(st, rows, j, threshold, results) ==
    IF j > Len(rows) THEN [ret |-> "ok", results |-> results]
    ELSE IF rows[j].idx < 0 THEN SearchLoop(st, rows, j + 1, threshold, results)
    ELSE IF FracLess(Score(rows[j].dist), threshold)
    THEN SearchLoop(st, rows, j + 1, threshold, results)
    ELSE IF rows[j].idx + 1 > Len(st.texts) \/ rows[j].idx + 1 > Len(st.metadata)
    THEN [ret |-> "IndexError", results |-> <<>>]
    ELSE SearchLoop(st, rows, j + 1, threshold,
                    Append(results, [text |-> st.texts[rows[j].idx + 1],
                                     score |-> Score(rows[j].dist),
                                     metadata |-> st.metadata[rows[j].idx + 1]]))

\* a search that goes to the index without testing for it
searchWithoutEmptyTest(st, q, k, threshold, p) ==
    IF st.index.none THEN [ret |-> "AttributeError", results |-> <<>>]
    ELSE SearchLoop(st, IndexSearch(st.index, q, k, p), 1, threshold, <<>>)

\* search(query_embedding, top_k, threshold) when faiss ranks in order p
search(st, q, k, threshold, p) ==
    IF st.index.none \/ Len(st.index.vecs) = 0
    THEN [ret |-> "ok", results |-> <<>>]
    ELSE SearchLoop(st, IndexSearch(st.index, q, k, p), 1, threshold, <<>>)

\* every result list search may return
SearchOutcomes(st, q, k, threshold) ==
    IF st.index.none \/ Len(st.index.vecs) = 0
    THEN { search(st, q, k, threshold, <<>>) }
    ELSE { search(st, q, k, threshold, p) : p \in FaissOrders(st.index, q) }

\* the files: absent, partial (opened for writing, not completely written)
\* or complete with their content
AbsentIndexFile == [state |-> "absent", index |-> NoIndex]
PartialIndexFile == [state |-> "partial", index |-> NoIndex]
AbsentDataFile == [state |-> "absent", metadata |-> <<>>, texts |-> <<>>, dimension |-> 0]
PartialDataFile == [state |-> "partial", metadata |-> <<>>, texts |-> <<>>, dimension |-> 0]

\* faiss.write_index(self.index, index_file) completed
WriteIndex(st) == [state |-> "complete", index |-> st.index]

\* json.dump({"metadata", "texts", "dimension"}) completed
DumpData(st) == [state |-> "complete", metadata |-> st.metadata,
                 texts |-> st.texts, dimension |-> st.dimension]

\* a load that does not restore the dimension
loadKeepingDimension(st, ifile, dfile) ==
    IF ifile.state # "complete" \/ dfile.state # "complete"
    THEN [store |-> st, ret |-> "False"]
    ELSE [store |-> [st EXCEPT !.index = ifile.index, !.metadata = dfile.metadata,
                               !.texts = dfile.texts],
          ret |-> "True"]

\* a load that resets the store before it looks for the files
loadResettingStore(st, ifile, dfile) ==
    IF ifile.state = "absent" \/ dfile.state = "absent"
    THEN [store |-> create_index(st), ret |-> "False"]
    ELSE [store |-> [st EXCEPT !.index = ifile.index, !.metadata = dfile.metadata,
                               !.texts = dfile.texts, !.dimension = dfile.dimension],
          ret |-> "True"]

\* load(): [store, ret]
load(st, ifile, dfile) ==
    IF ifile.state = "absent" \/ dfile.state = "absent"
    THEN [store |-> st, ret |-> "False"]
    ELSE IF ifile.state = "partial"
    THEN [store |-> st, ret |-> "FaissReadError"]
    ELSE LET st1 == [st EXCEPT !.index = ifile.index]
         IN  IF dfile.state = "partial"
             THEN [store |-> st1, ret |-> "JSONDecodeError"]
             ELSE [store |-> [st1 EXCEPT !.metadata = dfile.metadata,
                                         !.texts = dfile.texts,
                                         !.dimension = dfile.dimension],
                   ret |-> "True"]

\* clear()
clear(st) == create_index(st)

----------------------------------------------------------------------------
(* The sequential caller of one store (ingest_documents.py, a test, a      *)
(* restart after a crash): one action per method call. save() is split at  *)
(* its two file writes because the process can die between them.           *)

vs == stores[1]

NoArgs == [chunks |-> <<>>, q |-> <<>>, k |-> 0, threshold |-> [num |-> 0, den |-> 1]]

Op(name, ret, n, args, results, fresh) ==
    [op |-> name, ret |-> ret, n |-> n, args |-> args, results |-> results,
     fresh |-> fresh]

NoCommit == [has |-> FALSE, valid |-> FALSE, store |-> NewStore(DefaultDim)]

IsFresh(st) == st = NewStore(st.dimension)

\* vector_store = FAISSVectorStore(dimension=d): a new object replaces the old
Construct(d) ==
    /\ savePc = 0
    /\ stores' = <<NewStore(d)>>
    /\ lastOp' = Op("construct", "ok", 0, NoArgs, <<>>, TRUE)
    /\ UNCHANGED <<indexFile, dataFile, savePc, committed, threadVars, chunker, ingest>>

CreateIndex ==
    /\ savePc = 0
    /\ stores' = [stores EXCEPT ![1] = create_index(@)]
    /\ lastOp' = Op("create_index", "ok", 0, NoArgs, <<>>, IsFresh(vs))
    /\ UNCHANGED <<indexFile, dataFile, savePc, committed, threadVars, chunker, ingest>>

AddDocuments(chunks) ==
    /\ savePc = 0
    /\ count(vs) + Len(chunks) <= MaxVecs
    /\ Len(vs.texts) + Len(chunks) <= MaxVecs
    /\ LET r == add_documents(vs, chunks)
       IN  /\ stores' = [stores EXCEPT ![1] = r.store]
           /\ lastOp' = Op("add_documents", r.ret, r.n,
                           [NoArgs EXCEPT !.chunks = chunks], <<>>, IsFresh(vs))
    /\ UNCHANGED <<indexFile, dataFile, savePc, committed, threadVars, chunker, ingest>>

Search(q, k, threshold) ==
    /\ savePc = 0
    /\ \E r \in SearchOutcomes(vs, q, k, threshold) :
         lastOp' = Op("search", r.ret, 0,
                      [NoArgs EXCEPT !.q = q, !.k = k, !.threshold = threshold],
                      r.results, IsFresh(vs))
    /\ UNCHANGED <<stores, indexFile, dataFile, savePc, committed, threadVars, chunker, ingest>>

\* save(): no index raises; else the index file is opened for writing
SaveStart ==
    /\ savePc = 0
    /\ IF vs.index.none
       THEN /\ lastOp' = Op("save", "ValueError", 0, NoArgs, <<>>, IsFresh(vs))
            /\ UNCHANGED <<indexFile, savePc, committed>>
       ELSE /\ indexFile' = PartialIndexFile
            /\ savePc' = 1
            /\ committed' = [committed EXCEPT !.valid = FALSE]
            /\ lastOp' = Op("save", "running", 0, NoArgs, <<>>, IsFresh(vs))
    /\ UNCHANGED <<stores, dataFile, threadVars, chunker, ingest>>

\* faiss.write_index returns: index.faiss is complete
SaveIndexDone ==
    /\ savePc = 1
    /\ indexFile' = WriteIndex(vs)
    /\ savePc' = 2
    /\ UNCHANGED <<stores, dataFile, lastOp, committed, threadVars, chunker, ingest>>

\* open(data_file, "w"): metadata.json is truncated
SaveDataOpen ==
    /\ savePc = 2
    /\ dataFile' = PartialDataFile
    /\ savePc' = 3
    /\ UNCHANGED <<stores, indexFile, lastOp, committed, threadVars, chunker, ingest>>

\* json.dump returns and the file is closed: save() returns
SaveDataDone ==
    /\ savePc = 3
    /\ dataFile' = DumpData(vs)
    /\ savePc' = 0
    /\ committed' = [has |-> TRUE, valid |-> TRUE, store |-> vs]
    /\ lastOp' = Op("save", "ok", 0, NoArgs, <<>>, IsFresh(vs))
    /\ UNCHANGED <<stores, indexFile, threadVars, chunker, ingest>>

Load ==
    /\ savePc = 0
    /\ LET r == load(vs, indexFile, dataFile)
       IN  /\ stores' = [stores EXCEPT ![1] = r.store]
           /\ lastOp' = Op("load", r.ret, 0, NoArgs, <<>>, IsFresh(vs))
    /\ UNCHANGED <<indexFile, dataFile, savePc, committed, threadVars, chunker, ingest>>

Clear ==
    /\ savePc = 0
    /\ stores' = [stores EXCEPT ![1] = clear(@)]
    /\ lastOp' = Op("clear", "ok", 0, NoArgs, <<>>, IsFresh(vs))
    /\ UNCHANGED <<indexFile, dataFile, savePc, committed, threadVars, chunker, ingest>>

\* the process dies (also in the middle of save) and a new process constructs
\* its store: memory is lost, the files stay as they are
Crash(d) ==
    /\ stores' = <<NewStore(d)>>
    /\ savePc' = 0
    /\ lastOp' = Op("crash", "ok", 0, NoArgs, <<>>, TRUE)
    /\ UNCHANGED <<indexFile, dataFile, committed, threadVars, chunker, ingest>>

Init ==
    /\ stores = <<NewStore(DefaultDim)>>
    /\ indexFile = AbsentIndexFile
    /\ dataFile = AbsentDataFile
    /\ savePc = 0
    /\ lastOp = Op("construct", "ok", 0, NoArgs, <<>>, TRUE)
    /\ committed = NoCommit
    /\ g_vector_store = 0
    /\ threads = [t \in Threads |-> IdleThread]
    /\ chunker = IdleChunker
    /\ ingest = IdleIngest

Next ==
    \/ \E d \in Dims : Construct(d)
    \/ CreateIndex
    \/ \E chunks \in Batches : AddDocuments(chunks)
    \/ SaveStart
    \/ SaveIndexDone
    \/ SaveDataOpen
    \/ SaveDataDone
    \/ Load
    \/ Clear
    \/ \E d \in Dims : Crash(d)

Spec == Init /\ [][Next]_vars

\* the same caller building a store in memory and querying it
NextSearch ==
    \/ \E d \in Dims : Construct(d)
    \/ CreateIndex
    \/ \E chunks \in Batches : AddDocuments(chunks)
    \/ Clear
    \/ \E q \in Vectors(vs.index.d), k \in 1..(MaxVecs + 1), threshold \in Thresholds :
         Search(q, k, threshold)

SpecSearch == Init /\ [][NextSearch]_vars

\* the caller that builds, saves and reloads without the process dying
NextRoundTrip ==
    \/ \E d \in Dims : Construct(d)
    \/ CreateIndex
    \/ \E chunks \in Batches : AddDocuments(chunks)
    \/ SaveStart
    \/ SaveIndexDone
    \/ SaveDataOpen
    \/ SaveDataDone
    \/ Load
    \/ Clear

SpecRoundTrip == Init /\ [][NextRoundTrip]_vars

----------------------------------------------------------------------------
(* Claims about FAISSVectorStore *)

\* C1: in every reachable state the number of vectors in the index equals
\* len(texts) and len(metadata).
C1_LengthsSynchronised ==
    /\ count(vs) = Len(vs.texts)
    /\ Len(vs.texts) = Len(vs.metadata)

\* C2: search returns at most top_k results, every returned score is at
\* least the threshold, and the scores are non-increasing in return order.
C2_SearchRanked ==
    lastOp.op = "search" =>
        LET res == lastOp.results
        IN  /\ Len(res) <= lastOp.args.k
            /\ \A i \in 1..Len(res) : ~FracLess(res[i].score, lastOp.args.threshold)
            /\ \A i, j \in 1..Len(res) :
                 i < j => ~FracLess(res[i].score, res[j].score)

\* a search with top_k = 2 that returned two results of different score
\* under a positive threshold
C2_Witness ==
    /\ lastOp.op = "search"
    /\ lastOp.args.k = 2
    /\ lastOp.args.threshold.num > 0
    /\ Len(lastOp.results) = 2
    /\ FracLess(lastOp.results[2].score, lastOp.results[1].score)

\* C3: a load() that returns True, also after a crash during save(), leaves
\* the store with exactly the content of the last save that completed.
C3_LoadRestoresCompleteSave ==
    (lastOp.op = "load" /\ lastOp.ret = "True") =>
        /\ committed.has
        /\ vs = committed.store

FilesDisagree ==
    /\ indexFile.state = "complete"
    /\ dataFile.state = "complete"
    /\ ~ /\ Len(indexFile.index.vecs) = Len(dataFile.texts)
         /\ Len(dataFile.texts) = Len(dataFile.metadata)

\* C4: when the persisted files disagree in length, load() fails with
\* CorruptIndex.
C4_LoadRejectsDisagreeingFiles ==
    (lastOp.op = "load" /\ FilesDisagree) => lastOp.ret = "CorruptIndex"

SameSearches(a, b) ==
    \A q \in Vectors(a.index.d), k \in 1..(MaxVecs + 1), threshold \in Thresholds :
        SearchOutcomes(a, q, k, threshold) = SearchOutcomes(b, q, k, threshold)

\* C5: save() followed by load() into a fresh store yields the same count,
\* the same dimension and the same ranked results for every query.
C5_RoundTrip ==
    (lastOp.op = "load" /\ lastOp.ret = "True" /\ lastOp.fresh /\ committed.valid) =>
        /\ count(vs) = count(committed.store)
        /\ vs.dimension = committed.store.dimension
        /\ vs.index.d = committed.store.index.d
        /\ SameSearches(vs, committed.store)

\* a fresh store has loaded a saved index of two different chunks
C5_Witness ==
    /\ lastOp.op = "load" /\ lastOp.ret = "True" /\ lastOp.fresh /\ committed.valid
    /\ count(vs) = 2
    /\ Len(vs.texts) = 2
    /\ vs.texts[1] # vs.texts[2]

----------------------------------------------------------------------------
(* Two threads calling add_documents on one store. The code holds no lock, *)
(* so the interpreter may switch threads between any two statements; each  *)
(* action below is one statement of add_documents run by thread t.         *)

\* chunks whose embedding is attached and has the store's width
EmbeddedBatches ==
    { b \in Batches : \A j \in 1..Len(b) : Len(b[j].embedding) = DefaultDim }

\* chunks that calls in progress have still to append
Pending(t) ==
    IF threads[t].op = "add" THEN Len(threads[t].chunks) - (threads[t].i - 1) ELSE 0

RECURSIVE SumPending(_)
SumPending(ts) ==
    IF ts = {} THEN 0
    ELSE LET t == CHOOSE x \in ts : TRUE IN Pending(t) + SumPending(ts \ {t})

\* thread t calls add_documents(chunks)
AddCall(t, chunks) ==
    /\ threads[t].pc = "idle"
    /\ Len(vs.texts) + SumPending(Threads) + Len(chunks) <= MaxVecs
    /\ threads' = [threads EXCEPT ![t] =
            [IdleThread EXCEPT !.pc = "add_test", !.op = "add", !.chunks = chunks, !.i = 1]]
    /\ UNCHANGED <<stores, diskVars, callerVars, g_vector_store, chunker, ingest>>

\* if self.index is None:
AddTest(t) ==
    /\ threads[t].pc = "add_test"
    /\ threads' = [threads EXCEPT ![t].pc =
            IF vs.index.none THEN "add_create" ELSE "add_loop"]
    /\ UNCHANGED <<stores, diskVars, callerVars, g_vector_store, chunker, ingest>>

\*     self.create_index()
AddCreate(t) ==
    /\ threads[t].pc = "add_create"
    /\ stores' = [stores EXCEPT ![1] = create_index(@)]
    /\ threads' = [threads EXCEPT ![t].pc = "add_loop"]
    /\ UNCHANGED <<diskVars, callerVars, g_vector_store, chunker, ingest>>

\* for chunk in chunks: the embedding test and embeddings.append
AddLoopStep(t) ==
    /\ threads[t].pc = "add_loop"
    /\ LET me == threads[t]
       IN  threads' = [threads EXCEPT ![t] =
             IF me.i > Len(me.chunks) THEN [me EXCEPT !.pc = "add_index"]
             ELSE IF me.chunks[me.i].embedding = None
             THEN [IdleThread EXCEPT !.op = "add", !.resp.status = "ValueError"]
             ELSE [me EXCEPT !.pc = "add_meta",
                             !.embeddings = Append(@, me.chunks[me.i].embedding)]]
    /\ UNCHANGED <<stores, diskVars, callerVars, g_vector_store, chunker, ingest>>

\*     self.metadata.append(chunk.metadata.model_dump())
AddMeta(t) ==
    /\ threads[t].pc = "add_meta"
    /\ stores' = [stores EXCEPT ![1].metadata =
                    Append(@, threads[t].chunks[threads[t].i].metadata)]
    /\ threads' = [threads EXCEPT ![t].pc = "add_text"]
    /\ UNCHANGED <<diskVars, callerVars, g_vector_store, chunker, ingest>>

\*     self.texts.append(chunk.text)
AddText(t) ==
    /\ threads[t].pc = "add_text"
    /\ stores' = [stores EXCEPT ![1].texts =
                    Append(@, threads[t].chunks[threads[t].i].text)]
    /\ threads' = [threads EXCEPT ![t].pc = "add_loop", ![t].i = @ + 1]
    /\ UNCHANGED <<diskVars, callerVars, g_vector_store, chunker, ingest>>

\* if embeddings: self.index.add(vectors); return len(embeddings)
AddIndex(t) ==
    /\ threads[t].pc = "add_index"
    /\ LET me == threads[t]
       IN  IF me.embeddings = <<>>
           THEN /\ threads' = [threads EXCEPT ![t] =
                      [IdleThread EXCEPT !.op = "add", !.resp.status = "ok"]]
                /\ UNCHANGED stores
           ELSE IF ~RowsFit(me.embeddings, vs.index.d)
           THEN /\ threads' = [threads EXCEPT ![t] =
                      [IdleThread EXCEPT !.op = "add", !.resp.status = "AssertionError"]]
                /\ UNCHANGED stores
           ELSE /\ stores' = [stores EXCEPT ![1].index = IndexAdd(@, me.embeddings)]
                /\ threads' = [threads EXCEPT ![t] =
                      [IdleThread EXCEPT !.op = "add", !.resp.status = "ok"]]
    /\ UNCHANGED <<diskVars, callerVars, g_vector_store, chunker, ingest>>

NextAdders ==
    \E t \in Threads :
        \/ \E chunks \in EmbeddedBatches : AddCall(t, chunks)
        \/ AddTest(t)
        \/ AddCreate(t)
        \/ AddLoopStep(t)
        \/ AddMeta(t)
        \/ AddText(t)
        \/ AddIndex(t)

SpecAdders == Init /\ [][NextAdders]_vars

\* the chunk a text, a metadata record or a vector came from
ChunkOfText(x) == CHOOSE i \in 1..Len(ChunkTexts) : ChunkTexts[i] = x
ChunkOfMeta(x) == CHOOSE i \in 1..Len(ChunkTexts) : Meta(i) = x
ChunkOfVector(x) == CHOOSE i \in 1..Len(ChunkTexts) : Embed(i) = x

\* C7: after concurrent add_documents calls have completed, the text and the
\* metadata at every id belong to the same chunk as the vector at that id.
C7_ConcurrentAddsKeepRowsAligned ==
    (\A t \in Threads : threads[t].pc = "idle") =>
        /\ count(vs) = Len(vs.texts)
        /\ Len(vs.texts) = Len(vs.metadata)
        /\ \A i \in 1..count(vs) :
             /\ ChunkOfText(vs.texts[i]) = ChunkOfVector(vs.index.vecs[i])
             /\ ChunkOfMeta(vs.metadata[i]) = ChunkOfVector(vs.index.vecs[i])

----------------------------------------------------------------------------
(* rag_tool.py: the module-level singleton _vector_store and the tool      *)
(* functions, called from the threads of the service. No lock is taken, so *)
(* each action is one statement (or one attribute assignment of load) run  *)
(* by thread t.                                                            *)

\* RAGConfig.SIMILARITY_THRESHOLD = 0.3
SIMILARITY_THRESHOLD == [num |-> 3, den |-> 10]

\* the index a completed ingestion run left on disk
IngestedStore ==
    add_documents(NewStore(DefaultDim), <<ChunkOf(1, TRUE), ChunkOf(2, TRUE)>>).store

\* the top_k values callers pass and the query embeddings the embedder returns
TopKInputs == {-1, 0, 2, 11}
Queries == {<<0, 0>>, <<2, 2>>}

IndexNotFound == "FAISS index not found. Run: python scripts/ingest_documents.py"

\* round(result.score, 3), in thousandths
Round3(score) == (2000 * score.num + score.den) \div (2 * score.den)

\* formatted_results of search_oip_documents
FormatResults(results) ==
    [i \in 1..Len(results) |->
        [rank |-> i, text |-> results[i].text, score |-> Round3(results[i].score),
         source |-> results[i].metadata.source,
         chunk_index |-> results[i].metadata.chunk_index]]

\* Prompts.format_rag_context(results, query)
format_rag_context(results) ==
    IF results = <<>> THEN "<NO_DOCUMENTS_FOUND/>" ELSE "<RETRIEVED_CONTEXT>"

\* a response that reports success with nothing found
EmptySuccessResponse ==
    [status |-> "success", results |-> <<>>, context |-> "<NO_DOCUMENTS_FOUND/>",
     message |-> "Found"]

\* the response dictionaries
ErrorResponse(msg) ==
    [status |-> "error", results |-> <<>>, context |-> "", message |-> msg]
NoResultsResponse ==
    [status |-> "no_results", results |-> <<>>, context |-> "", message |-> "no_results"]
SuccessResponse(results) ==
    [status |-> "success", results |-> FormatResults(results),
     context |-> format_rag_context(FormatResults(results)), message |-> "Found"]

\* thread t returns resp from its call
Return(t, call, resp) ==
    [IdleThread EXCEPT !.op = call, !.resp = resp,
                       !.embeds = threads[t].embeds, !.searches = threads[t].searches,
                       !.asked = threads[t].asked]

\* what the caller of load() does when load raises or returns False
LoadFailed(me, how) ==
    IF me.op = "reload" THEN [NoResponse EXCEPT !.status = how]
    ELSE IF me.op = "stats" THEN [NoResponse EXCEPT !.status = "not_loaded",
                                                    !.message = "Index not found."]
    ELSE ErrorResponse(IF how = "False" THEN IndexNotFound ELSE how)

\* a call may still construct a store object: there is room for one more
\* beside those the calls in progress may construct
RoomForStore ==
    Len(stores) + Cardinality({ u \in Threads : threads[u].pc \in {"gvs_test", "new"} })
        < MaxStores

\* a call that hands top_k on as it came
SearchCallUnclamped(t, top_k) ==
    /\ threads[t].pc = "idle"
    /\ RoomForStore
    /\ threads' = [threads EXCEPT ![t] =
            [IdleThread EXCEPT !.pc = "gvs_test", !.op = "search",
                               !.asked = top_k, !.top_k = top_k]]
    /\ UNCHANGED <<stores, diskVars, callerVars, g_vector_store, chunker, ingest>>

\* search_oip_documents(query, top_k): top_k = min(max(1, top_k), 10)
SearchCall(t, top_k) ==
    /\ threads[t].pc = "idle"
    /\ RoomForStore
    /\ threads' = [threads EXCEPT ![t] =
            [IdleThread EXCEPT !.pc = "gvs_test", !.op = "search",
                               !.asked = top_k,
                               !.top_k = Min(Max(1, top_k), 10)]]
    /\ UNCHANGED <<stores, diskVars, callerVars, g_vector_store, chunker, ingest>>

\* get_index_stats()
StatsCall(t) ==
    /\ threads[t].pc = "idle"
    /\ RoomForStore
    /\ threads' = [threads EXCEPT ![t] = [IdleThread EXCEPT !.pc = "gvs_test", !.op = "stats"]]
    /\ UNCHANGED <<stores, diskVars, callerVars, g_vector_store, chunker, ingest>>

\* reload_index()
ReloadCall(t) ==
    /\ threads[t].pc = "idle"
    /\ RoomForStore
    /\ threads' = [threads EXCEPT ![t] = [IdleThread EXCEPT !.pc = "new", !.op = "reload"]]
    /\ UNCHANGED <<stores, diskVars, callerVars, g_vector_store, chunker, ingest>>

\* _get_vector_store: if _vector_store is None
GvsTest(t) ==
    /\ threads[t].pc = "gvs_test"
    /\ threads' = [threads EXCEPT ![t].pc =
            IF g_vector_store = 0 THEN "new" ELSE "gvs_ret"]
    /\ UNCHANGED <<stores, diskVars, callerVars, g_vector_store, chunker, ingest>>

\* _vector_store = FAISSVectorStore(), in _get_vector_store and reload_index
NewVectorStore(t) ==
    /\ threads[t].pc = "new"
    /\ Len(stores) < MaxStores
    /\ stores' = Append(stores, NewStore(DefaultDim))
    /\ g_vector_store' = Len(stores) + 1
    /\ threads' = [threads EXCEPT ![t].pc = "load_call"]
    /\ UNCHANGED <<diskVars, callerVars, chunker, ingest>>

\* _vector_store.load(): the global is read, load tests that both files exist
LoadCall(t) ==
    /\ threads[t].pc = "load_call"
    /\ LET me == threads[t]
       IN  threads' = [threads EXCEPT ![t] =
             IF indexFile.state = "absent" \/ dataFile.state = "absent"
             THEN Return(t, me.op, LoadFailed(me, "False"))
             ELSE [me EXCEPT !.pc = "load_index", !.ref = g_vector_store]]
    /\ UNCHANGED <<stores, diskVars, callerVars, g_vector_store, chunker, ingest>>

\* load: self.index = self.faiss.read_index(...)
LoadIndex(t) ==
    /\ threads[t].pc = "load_index"
    /\ LET me == threads[t]
       IN  IF indexFile.state = "partial"
           THEN /\ threads' = [threads EXCEPT ![t] =
                      Return(t, me.op, LoadFailed(me, "FaissReadError"))]
                /\ UNCHANGED stores
           ELSE /\ stores' = [stores EXCEPT ![me.ref].index = indexFile.index]
                /\ threads' = [threads EXCEPT ![t].pc = "load_meta"]
    /\ UNCHANGED <<diskVars, callerVars, g_vector_store, chunker, ingest>>

\* load: data = json.load(f); self.metadata = data["metadata"]
LoadMeta(t) ==
    /\ threads[t].pc = "load_meta"
    /\ LET me == threads[t]
       IN  IF dataFile.state = "partial"
           THEN /\ threads' = [threads EXCEPT ![t] =
                      Return(t, me.op, LoadFailed(me, "JSONDecodeError"))]
                /\ UNCHANGED stores
           ELSE /\ stores' = [stores EXCEPT ![me.ref].metadata = dataFile.metadata]
                /\ threads' = [threads EXCEPT ![t].pc = "load_texts"]
    /\ UNCHANGED <<diskVars, callerVars, g_vector_store, chunker, ingest>>

\* load: self.texts = data["texts"]
LoadTexts(t) ==
    /\ threads[t].pc = "load_texts"
    /\ stores' = [stores EXCEPT ![threads[t].ref].texts = dataFile.texts]
    /\ threads' = [threads EXCEPT ![t].pc = "load_dim"]
    /\ UNCHANGED <<diskVars, callerVars, g_vector_store, chunker, ingest>>

\* load: self.dimension = data.get("dimension", self.dimension); return True
LoadDim(t) ==
    /\ threads[t].pc = "load_dim"
    /\ stores' = [stores EXCEPT ![threads[t].ref].dimension = dataFile.dimension]
    /\ threads' = [threads EXCEPT ![t] =
            IF threads[t].op = "reload"
            THEN Return(t, "reload", [NoResponse EXCEPT !.status = "True"])
            ELSE [threads[t] EXCEPT !.pc = "gvs_ret"]]
    /\ UNCHANGED <<diskVars, callerVars, g_vector_store, chunker, ingest>>

\* _get_vector_store: return _vector_store
GvsRet(t) ==
    /\ threads[t].pc = "gvs_ret"
    /\ threads' = [threads EXCEPT ![t].ref = g_vector_store,
                                  ![t].pc = IF threads[t].op = "stats" THEN "stats_read"
                                            ELSE "embed"]
    /\ UNCHANGED <<stores, diskVars, callerVars, g_vector_store, chunker, ingest>>

\* get_index_stats: the dictionary built from vs.count and vs.dimension
StatsRead(t) ==
    /\ threads[t].pc = "stats_read"
    /\ threads' = [threads EXCEPT ![t] =
            Return(t, "stats", [NoResponse EXCEPT !.status = "loaded"])]
    /\ UNCHANGED <<stores, diskVars, callerVars, g_vector_store, chunker, ingest>>

\* an embedding call that is made again after it raised
GetEmbeddingRetried(t, q, ok) ==
    /\ threads[t].pc = "embed"
    /\ threads' = [threads EXCEPT ![t] =
            IF ok THEN [threads[t] EXCEPT !.pc = "search_test", !.q = q, !.embeds = @ + 1]
            ELSE IF threads[t].embeds = 0 THEN [threads[t] EXCEPT !.embeds = @ + 1]
            ELSE [Return(t, "search", ErrorResponse("Search Error"))
                    EXCEPT !.embeds = @ + 1]]
    /\ UNCHANGED <<stores, diskVars, callerVars, g_vector_store, chunker, ingest>>

\* query_embedding = openrouter.get_embedding(query): a vector, or it raises
GetEmbedding(t, q, ok) ==
    /\ threads[t].pc = "embed"
    /\ threads' = [threads EXCEPT ![t] =
            IF ok THEN [threads[t] EXCEPT !.pc = "search_test", !.q = q, !.embeds = @ + 1]
            ELSE [Return(t, "search", ErrorResponse("Search Error"))
                    EXCEPT !.embeds = @ + 1]]
    /\ UNCHANGED <<stores, diskVars, callerVars, g_vector_store, chunker, ingest>>

\* search: if self.index is None or self.index.ntotal == 0: return []
SearchTest(t) ==
    /\ threads[t].pc = "search_test"
    /\ LET st == stores[threads[t].ref]
       IN  threads' = [threads EXCEPT ![t] =
             IF st.index.none \/ Len(st.index.vecs) = 0
             THEN [Return(t, "search", NoResultsResponse) EXCEPT !.searches = @ + 1]
             ELSE [threads[t] EXCEPT !.pc = "search_index", !.searches = @ + 1]]
    /\ UNCHANGED <<stores, diskVars, callerVars, g_vector_store, chunker, ingest>>

\* search: distances, indices = self.index.search(query_vector, top_k)
SearchIndex(t) ==
    /\ threads[t].pc = "search_index"
    /\ LET me == threads[t]
           st == stores[me.ref]
       IN  \E p \in FaissOrders(st.index, me.q) :
             threads' = [threads EXCEPT ![t].pc = "search_loop",
                                        ![t].rows = IndexSearch(st.index, me.q, me.top_k, p)]
    /\ UNCHANGED <<stores, diskVars, callerVars, g_vector_store, chunker, ingest>>

\* a search that answers with the rows read before an exception
SearchRowsPartial(t) ==
    /\ threads[t].pc = "search_loop"
    /\ LET me == threads[t]
           r == SearchLoop(stores[me.ref], me.rows, 1, SIMILARITY_THRESHOLD, <<>>)
       IN  threads' = [threads EXCEPT ![t] =
             IF r.results = <<>> /\ r.ret = "ok" THEN Return(t, "search", NoResultsResponse)
             ELSE Return(t, "search", SuccessResponse(r.results))]
    /\ UNCHANGED <<stores, diskVars, callerVars, g_vector_store, chunker, ingest>>

\* search: the for loop over the rows, then the response of the tool
SearchRows(t) ==
    /\ threads[t].pc = "search_loop"
    /\ LET me == threads[t]
           r == SearchLoop(stores[me.ref], me.rows, 1, SIMILARITY_THRESHOLD, <<>>)
       IN  threads' = [threads EXCEPT ![t] =
             IF r.ret # "ok" THEN Return(t, "search", ErrorResponse("Search Error"))
             ELSE IF r.results = <<>> THEN Return(t, "search", NoResultsResponse)
             ELSE Return(t, "search", SuccessResponse(r.results))]
    /\ UNCHANGED <<stores, diskVars, callerVars, g_vector_store, chunker, ingest>>

\* a service process starts with no store object; the index directory is
\* empty or holds the files of a completed ingestion run
InitTool ==
    /\ stores = <<>>
    /\ \E ingested \in BOOLEAN :
         /\ indexFile = IF ingested THEN WriteIndex(IngestedStore) ELSE AbsentIndexFile
         /\ dataFile = IF ingested THEN DumpData(IngestedStore) ELSE AbsentDataFile
    /\ savePc = 0
    /\ lastOp = Op("construct", "ok", 0, NoArgs, <<>>, TRUE)
    /\ committed = NoCommit
    /\ g_vector_store = 0
    /\ threads = [t \in Threads |-> IdleThread]
    /\ chunker = IdleChunker
    /\ ingest = IdleIngest

NextTool ==
    \E t \in Threads :
        \/ \E top_k \in TopKInputs : SearchCall(t, top_k)
        \/ StatsCall(t)
        \/ ReloadCall(t)
        \/ GvsTest(t)
        \/ NewVectorStore(t)
        \/ LoadCall(t)
        \/ LoadIndex(t)
        \/ LoadMeta(t)
        \/ LoadTexts(t)
        \/ LoadDim(t)
        \/ GvsRet(t)
        \/ StatsRead(t)
        \/ \E q \in Queries, ok \in BOOLEAN : GetEmbedding(t, q, ok)
        \/ SearchTest(t)
        \/ SearchIndex(t)
        \/ SearchRows(t)

SpecTool == InitTool /\ [][NextTool]_vars

\* a step of a call in progress by thread t
ThreadStep(t) ==
    \/ GvsTest(t)
    \/ NewVectorStore(t)
    \/ LoadCall(t)
    \/ LoadIndex(t)
    \/ LoadMeta(t)
    \/ LoadTexts(t)
    \/ LoadDim(t)
    \/ GvsRet(t)
    \/ StatsRead(t)
    \/ \E q \in Queries, ok \in BOOLEAN : GetEmbedding(t, q, ok)
    \/ SearchTest(t)
    \/ SearchIndex(t)
    \/ SearchRows(t)

\* every thread that is inside a call is scheduled again, and the embedding
\* request returns or raises (it carries a timeout)
SpecToolFair == SpecTool /\ \A t \in Threads : WF_vars(ThreadStep(t))

SearchPcs == {"search_test", "search_index", "search_loop"}
LoadPcs == {"load_index", "load_meta", "load_texts", "load_dim"}

\* thread u has constructed store object o and not yet completed its load()
Loading(u, o) ==
    \/ threads[u].pc \in LoadPcs /\ threads[u].ref = o
    \/ threads[u].pc = "load_call" /\ g_vector_store = o

\* C6: no thread executes search on a store while another thread's load()
\* of that store is pending or in progress.
C6_SearchExcludesLoad ==
    \A t, u \in Threads :
        (t # u /\ threads[t].pc \in SearchPcs) => ~Loading(u, threads[t].ref)

----------------------------------------------------------------------------
(* chunker.py: SemanticChunker. Strings are sequences of characters and    *)
(* offsets are the 0-based offsets of the Python code.                     *)

\* RAGConfig.CHUNK_SIZE and RAGConfig.CHUNK_OVERLAP
CHUNK_SIZE == 500
CHUNK_OVERLAP == 50

\* the characters str.strip() removes
Whitespace == {" ", "\n"}

SetMax(S) == CHOOSE x \in S : \A y \in S : y <= x
SetMin(S) == CHOOSE x \in S : \A y \in S : x <= y

\* str.strip()
Strip(str) ==
    LET keep == { i \in 1..Len(str) : str[i] \notin Whitespace }
    IN  IF keep = {} THEN <<>> ELSE SubSeq(str, SetMin(keep), SetMax(keep))

\* how a slice bound i is read on a string of length n
PyBound(i, n) == IF i < 0 THEN Max(i + n, 0) ELSE Min(i, n)

\* str[a:b]
Slice(str, a, b) ==
    LET lo == PyBound(a, Len(str))
        hi == PyBound(b, Len(str))
    IN  IF lo >= hi THEN <<>> ELSE SubSeq(str, lo + 1, hi)

\* str.rfind(sep, a, b): the highest offset in [a, b) where sep lies inside
\* str[a:b], or -1
RFind(str, sep, a, b) ==
    LET lo == PyBound(a, Len(str))
        hi == PyBound(b, Len(str))
        at == { j \in lo..(hi - Len(sep)) : SubSeq(str, j + 1, j + Len(sep)) = sep }
    IN  IF at = {} THEN -1 ELSE SetMax(at)

\* the offsets of "\n\n" in str
Breaks(str) == { i \in 1..(Len(str) - 1) : str[i] = "\n" /\ str[i + 1] = "\n" }

RECURSIVE SplitBlank(_)
\* str.split("\n\n")
SplitBlank(str) ==
    IF Breaks(str) = {} THEN <<str>>
    ELSE LET i == SetMin(Breaks(str))
         IN  <<SubSeq(str, 1, i - 1)>> \o SplitBlank(SubSeq(str, i + 2, Len(str)))

\* _split_paragraphs: [p.strip() for p in paragraphs if p.strip()]
split_paragraphs(str) ==
    LET ps == SplitBlank(str)
    IN  [k \in 1..Len(SelectSeq(ps, LAMBDA x : Strip(x) # <<>>)) |->
            Strip(SelectSeq(ps, LAMBDA x : Strip(x) # <<>>)[k])]

\* the sentence terminators, in the order the code tries them
Separators == << <<".", " ">>, <<"!", " ">>, <<"?", " ">>, <<"\n">> >>

RECURSIVE SentenceEnd(_, _, _, _, _)
\* for sep in [...]: the first separator whose last occurrence in
\* text[start:end] lies beyond the middle of the window moves the end
SentenceEnd(text, start, end, chunk_size, k) ==
    IF k > Len(Separators) THEN end
    ELSE LET last_sep == RFind(text, Separators[k], start, end)
         IN  IF last_sep > start + (chunk_size \div 2) THEN last_sep + 1
             ELSE SentenceEnd(text, start, end, chunk_size, k + 1)

\* a window one character wider than chunk_size
WindowEndPastSize(text, start, chunk_size) == start + chunk_size + 1

\* the end of the window that begins at start
WindowEnd(text, start, chunk_size) ==
    LET end == start + chunk_size
    IN  IF end < Len(text) THEN SentenceEnd(text, start, end, chunk_size, 1) ELSE end

\* a window that restarts where the last one ended
NextStartWithoutOverlap(end, overlap) == end

\* start = end - self.overlap
NextStart(end, overlap) == end - overlap

\* a numbering that starts at one
BuildChunksFromOne(raw_chunks) ==
    [i \in 1..Len(raw_chunks) |->
        [text |-> Strip(raw_chunks[i]),
         metadata |-> [source |-> "doc.txt", chunk_index |-> i,
                       total_chunks |-> Len(raw_chunks), doc_type |-> "txt"]]]

\* chunk_document: the DocumentChunk objects made from raw_chunks
BuildChunks(raw_chunks) ==
    [i \in 1..Len(raw_chunks) |->
        [text |-> Strip(raw_chunks[i]),
         metadata |-> [source |-> "doc.txt", chunk_index |-> i - 1,
                       total_chunks |-> Len(raw_chunks), doc_type |-> "txt"]]]

\* chunk_document begins: paragraphs = self._split_paragraphs(text)
ChunkDocument ==
    /\ chunker.pc = "constructed"
    /\ chunker' = [chunker EXCEPT !.pc = "merge", !.p = 1,
                                  !.paragraphs = split_paragraphs(chunker.content)]
    /\ UNCHANGED <<storeVars, ingest>>

\* a merge test that also turns away the paragraph that fits exactly
MergeParagraphStrict ==
    /\ chunker.pc = "merge"
    /\ chunker.p <= Len(chunker.paragraphs)
    /\ LET para == chunker.paragraphs[chunker.p]
           cur == chunker.current_chunk
       IN  chunker' =
             IF Len(para) > chunker.chunk_size
             THEN [chunker EXCEPT !.chunks = IF cur # <<>> THEN Append(@, cur) ELSE @,
                                  !.current_chunk = <<>>,
                                  !.pc = "split", !.text = para, !.start = 0,
                                  !.para_chunks = <<>>]
             ELSE IF Len(cur) + Len(para) + 2 >= chunker.chunk_size
             THEN [chunker EXCEPT !.chunks = IF cur # <<>> THEN Append(@, cur) ELSE @,
                                  !.current_chunk = para, !.p = @ + 1]
             ELSE [chunker EXCEPT !.current_chunk =
                                     IF cur # <<>> THEN cur \o <<"\n", "\n">> \o para
                                     ELSE para,
                                  !.p = @ + 1]
    /\ UNCHANGED <<storeVars, ingest>>

\* _merge_and_split: one iteration of the loop over the paragraphs
MergeParagraph ==
    /\ chunker.pc = "merge"
    /\ chunker.p <= Len(chunker.paragraphs)
    /\ LET para == chunker.paragraphs[chunker.p]
           cur == chunker.current_chunk
       IN  chunker' =
             IF Len(para) > chunker.chunk_size
             THEN [chunker EXCEPT !.chunks = IF cur # <<>> THEN Append(@, cur) ELSE @,
                                  !.current_chunk = <<>>,
                                  !.pc = "split", !.text = para, !.start = 0,
                                  !.para_chunks = <<>>]
             ELSE IF Len(cur) + Len(para) + 2 > chunker.chunk_size
             THEN [chunker EXCEPT !.chunks = IF cur # <<>> THEN Append(@, cur) ELSE @,
                                  !.current_chunk = para, !.p = @ + 1]
             ELSE [chunker EXCEPT !.current_chunk =
                                     IF cur # <<>> THEN cur \o <<"\n", "\n">> \o para
                                     ELSE para,
                                  !.p = @ + 1]
    /\ UNCHANGED <<storeVars, ingest>>

\* _split_with_overlap: one iteration of the while loop
SplitWindow ==
    /\ chunker.pc = "split"
    /\ chunker.start < Len(chunker.text)
    /\ Len(chunker.para_chunks) <= MaxDocLen
    /\ LET end == WindowEnd(chunker.text, chunker.start, chunker.chunk_size)
           chunk == Strip(Slice(chunker.text, chunker.start, end))
       IN  chunker' = [chunker EXCEPT
                         !.para_chunks = IF chunk # <<>> THEN Append(@, chunk) ELSE @,
                         !.start = NextStart(end, chunker.overlap)]
    /\ UNCHANGED <<storeVars, ingest>>

\* _split_with_overlap returns: chunks.extend(para_chunks)
SplitReturn ==
    /\ chunker.pc = "split"
    /\ chunker.start >= Len(chunker.text)
    /\ chunker' = [chunker EXCEPT !.chunks = @ \o chunker.para_chunks,
                                  !.pc = "merge", !.p = @ + 1]
    /\ UNCHANGED <<storeVars, ingest>>

\* _merge_and_split returns after the last chunk; chunk_document builds the
\* DocumentChunk objects and returns them
ChunkReturn ==
    /\ chunker.pc = "merge"
    /\ chunker.p > Len(chunker.paragraphs)
    /\ LET raw_chunks == IF chunker.current_chunk # <<>>
                         THEN Append(chunker.chunks, chunker.current_chunk)
                         ELSE chunker.chunks
       IN  chunker' = [chunker EXCEPT !.pc = "done", !.chunks = raw_chunks,
                                      !.current_chunk = <<>>,
                                      !.result = BuildChunks(raw_chunks)]
    /\ UNCHANGED <<storeVars, ingest>>

\* the characters of the small corpus and its documents
Alphabet == {"a", ".", " ", "\n"}
SmallDocs == UNION { [1..n -> Alphabet] : n \in 0..MaxDocLen }

\* (chunk_size, overlap) of the chunkers that chunk the small corpus
SmallConfigs == { <<3, 1>>, <<5, 0>>, <<5, 2>>, <<5, 4>>, <<3, 3>> }

\* paragraphs of 1,200 characters: letters only, or with a sentence ending
\* ". " at each of the given offsets
ScenarioDoc(dots) ==
    [i \in 1..1200 |-> IF (i - 1) \in dots THEN "."
                       ELSE IF (i - 2) \in dots THEN " " ELSE "a"]
\* a paragraph of 1,200 characters with ". " at offset 300 and a newline at
\* offset 400
MixedDoc == [ScenarioDoc({300}) EXCEPT ![401] = "\n"]

\* n letters
Letters(n) == [i \in 1..n |-> "a"]

\* paragraphs of 200, 200, 200, 600 and 100 letters, and one paragraph of 940
ParagraphsDoc ==
    Letters(200) \o <<"\n", "\n">> \o Letters(200) \o <<"\n", "\n">> \o Letters(200)
        \o <<"\n", "\n">> \o Letters(600) \o <<"\n", "\n">> \o Letters(100)
TailDoc == Letters(940)

ScenarioDocs ==
    { ScenarioDoc({}), ScenarioDoc({300, 600, 900}), MixedDoc, ParagraphsDoc, TailDoc }

InitChunker ==
    /\ stores = <<NewStore(DefaultDim)>>
    /\ indexFile = AbsentIndexFile
    /\ dataFile = AbsentDataFile
    /\ savePc = 0
    /\ lastOp = Op("construct", "ok", 0, NoArgs, <<>>, TRUE)
    /\ committed = NoCommit
    /\ g_vector_store = 0
    /\ threads = [t \in Threads |-> IdleThread]
    /\ \/ \E c \in SmallConfigs, doc \in SmallDocs : chunker = NewChunker(c[1], c[2], doc)
       \/ \E doc \in ScenarioDocs : chunker = NewChunker(CHUNK_SIZE, CHUNK_OVERLAP, doc)
    /\ ingest = IdleIngest

NextChunker ==
    \/ ChunkDocument
    \/ MergeParagraph
    \/ SplitWindow
    \/ SplitReturn
    \/ ChunkReturn

SpecChunker == InitChunker /\ [][NextChunker]_vars

----------------------------------------------------------------------------
(* Claims about concurrency and about SemanticChunker *)

\* C8: a chunker whose overlap is not below its chunk_size produces no
\* chunk and never returns from chunk_document: it is rejected.
C8_OverlapNotBelowSizeRejected ==
    chunker.overlap >= chunker.chunk_size =>
        /\ chunker.pc # "done"
        /\ chunker.para_chunks = <<>>

\* C9: the chunks chunk_document returns carry chunk_index 0, 1, ..., n-1 in
\* order, and total_chunks = n, the number of chunks returned.
C9_ChunkIndexDense ==
    chunker.pc = "done" =>
        \A i \in 1..Len(chunker.result) :
            /\ chunker.result[i].metadata.chunk_index = i - 1
            /\ chunker.result[i].metadata.total_chunks = Len(chunker.result)

\* chunk_document has returned three or more chunks
C9_Witness ==
    /\ chunker.pc = "done"
    /\ Len(chunker.result) >= 3

\* a chunk without the part it shares with its predecessor: the first
\* overlap characters
DropShared(chunk, overlap) == SubSeq(chunk, Min(overlap, Len(chunk)) + 1, Len(chunk))

RECURSIVE Reconstruct(_, _, _)
\* the first chunk followed by every later chunk without its shared part
Reconstruct(result, overlap, i) ==
    IF i > Len(result) THEN <<>>
    ELSE (IF i = 1 THEN result[i].text ELSE DropShared(result[i].text, overlap))
         \o Reconstruct(result, overlap, i + 1)

\* chunk_document has returned for a document that is one paragraph longer
\* than chunk_size (with no blank around it), under overlap < chunk_size
SplitOneParagraph ==
    /\ chunker.pc = "done"
    /\ chunker.overlap < chunker.chunk_size
    /\ Len(chunker.content) > chunker.chunk_size
    /\ chunker.paragraphs = <<chunker.content>>

\* the chunks rebuild the document, and the 1,200-character paragraph under
\* chunk_size 500 and overlap 50 gave exactly three chunks
RebuildsDocument ==
    /\ Reconstruct(chunker.result, chunker.overlap, 1) = chunker.content
    /\ (Len(chunker.content) = 1200 /\ chunker.chunk_size = CHUNK_SIZE
            /\ chunker.overlap = CHUNK_OVERLAP) => Len(chunker.result) = 3

NoWhitespace(str) == \A i \in 1..Len(str) : str[i] \notin Whitespace

----------------------------------------------------------------------------
(* Chunk sizes *)

\* C11: every chunk chunk_document emits, and every window cut so far from
\* an oversized paragraph, is at most chunk_size characters long.
C11_ChunkWithinSize ==
    /\ \A i \in 1..Len(chunker.para_chunks) :
          Len(chunker.para_chunks[i]) <= chunker.chunk_size
    /\ chunker.pc = "done" =>
          \A i \in 1..Len(chunker.result) :
              Len(chunker.result[i].text) <= chunker.chunk_size

\* chunk_document has returned a chunk merged from two paragraphs that is
\* exactly chunk_size long
C11_Witness ==
    /\ chunker.pc = "done"
    /\ \E i \in 1..Len(chunker.result) :
          /\ Len(chunker.result[i].text) = chunker.chunk_size
          /\ Breaks(chunker.result[i].text) # {}

----------------------------------------------------------------------------
(* Responses of search_oip_documents *)

\* thread t returns from search_oip_documents in this step
SearchReturns(t) ==
    /\ threads[t].op = "search"
    /\ threads[t].pc # "idle"
    /\ threads'[t].pc = "idle"

\* the step in which t returns is the end of a failure: load() returned
\* False or raised, get_embedding raised, or the search raised
Failure(t) ==
    \/ threads[t].pc \in {"load_call", "load_index", "load_meta", "embed"}
    \/ /\ threads[t].pc = "search_loop"
       /\ SearchLoop(stores[threads[t].ref], threads[t].rows, 1,
                     SIMILARITY_THRESHOLD, <<>>).ret # "ok"

\* C12: a response has status "success" only with a non-empty results list,
\* has empty results and empty context under "no_results" and "error", and
\* a failure never gives "success".
C12_NoEmptySuccess ==
    [][\A t \in Threads : SearchReturns(t) =>
         LET r == threads'[t].resp
         IN  /\ r.status \in {"success", "no_results", "error"}
             /\ r.status = "success" => r.results # <<>>
             /\ r.status \in {"no_results", "error"} =>
                    (r.results = <<>> /\ r.context = "")
             /\ Failure(t) => r.status # "success"]_vars

\* one call has returned success and another has returned an error
C12_Witness ==
    \E t, u \in Threads :
        /\ threads[t].op = "search" /\ threads[t].resp.status = "success"
        /\ threads[u].op = "search" /\ threads[u].resp.status = "error"

\* C13: when the embedding call fails the response has status "error" and a
\* message, the embedding call was made exactly once and the store search
\* was not invoked.
C13_EmbeddingFailureSurfaced ==
    [][\A t \in Threads : (SearchReturns(t) /\ threads[t].pc = "embed") =>
         /\ threads'[t].resp.status = "error"
         /\ threads'[t].resp.message # ""
         /\ threads'[t].embeds = 1
         /\ threads'[t].searches = 0]_vars

\* a call has returned an error after its one embedding call, without a
\* search, on a loaded store
C13_Witness ==
    \E t \in Threads :
        /\ threads[t].op = "search" /\ threads[t].pc = "idle"
        /\ threads[t].resp.status = "error"
        /\ threads[t].embeds = 1 /\ threads[t].searches = 0

\* the terminal outcomes of search_oip_documents
Outcomes == {"no_results", "success", "error"}

\* embedding, then at most one search, within a call of search_oip_documents
EmbeddingThenSearching(t) ==
    threads[t].op = "search" =>
        /\ threads[t].embeds <= 1
        /\ threads[t].searches <= 1
        /\ threads[t].searches = 1 => threads[t].embeds = 1
        /\ threads[t].pc \in SearchPcs =>
              (threads[t].embeds = 1 /\ threads[t].q \in Queries)
        /\ threads[t].pc = "idle" => threads[t].resp.status \in Outcomes

\* a success carries the whole list the search returned
WholeResultList(t) ==
    (SearchReturns(t) /\ threads'[t].resp.status = "success") =>
        LET r == SearchLoop(stores[threads[t].ref], threads[t].rows, 1,
                            SIMILARITY_THRESHOLD, <<>>)
        IN  /\ threads[t].pc = "search_loop"
            /\ r.ret = "ok"
            /\ threads'[t].resp.results = FormatResults(r.results)

\* C14: a call embeds, then searches, each at most once and in that order,
\* and ends in exactly one of no_results, success or error, with the whole
\* result list or none.
C14_OneTerminalOutcome ==
    /\ [](\A t \in Threads : EmbeddingThenSearching(t))
    /\ [][\A t \in Threads : WholeResultList(t)]_vars
    /\ \A t \in Threads :
          (threads[t].op = "search" /\ threads[t].pc # "idle")
              ~> (threads[t].op = "search" /\ threads[t].pc = "idle"
                    /\ threads[t].resp.status \in Outcomes)

\* a call has returned success after one embedding and one search
C14_Witness ==
    \E t \in Threads :
        /\ threads[t].op = "search" /\ threads[t].pc = "idle"
        /\ threads[t].resp.status = "success"
        /\ threads[t].embeds = 1 /\ threads[t].searches = 1

----------------------------------------------------------------------------
(* scripts/ingest_documents.py: main() from the chunking of the loaded     *)
(* documents to save(). An exception that main does not catch ends the     *)
(* process (pc "aborted"). chunk_document runs as the chunker actions.     *)

\* RAGConfig.EMBEDDING_BATCH_SIZE
EMBEDDING_BATCH_SIZE == 20

\* the embedder: the vector the embedding model gives a text, of width
\* DefaultDim
EmbedText(text) ==
    <<Len(text), Cardinality({ j \in 1..Len(text) : text[j] = "." })>>

\* openrouter.get_embeddings(texts) when the request succeeds: one vector
\* per item of the response, which may hold fewer items than texts
get_embeddings(texts, items) == [j \in 1..items |-> EmbedText(texts[j])]

\* an assignment that walks the vectors backwards
AssignEmbeddingsReversed(batch, embeddings) ==
    [j \in 1..Len(batch) |->
        IF j <= Len(embeddings)
        THEN [batch[j] EXCEPT !.embedding = embeddings[Len(embeddings) + 1 - j]]
        ELSE batch[j]]

\* for chunk, embedding in zip(batch, embeddings): chunk.embedding = embedding
AssignEmbeddings(batch, embeddings) ==
    [j \in 1..Len(batch) |->
        IF j <= Len(embeddings) THEN [batch[j] EXCEPT !.embedding = embeddings[j]]
        ELSE batch[j]]

\* the DocumentChunk chunk_document builds: no embedding yet
DocumentChunk(c) == [text |-> c.text, metadata |-> c.metadata, embedding |-> None]

\* chunk_documents: for doc in documents: chunks = self.chunk_document(doc)
ChunkDocumentsNext ==
    /\ ingest.pc = "chunk_documents"
    /\ ingest.k <= Len(ingest.documents)
    /\ chunker' = NewChunker(CHUNK_SIZE, CHUNK_OVERLAP, ingest.documents[ingest.k])
    /\ ingest' = [ingest EXCEPT !.pc = "chunk_document"]
    /\ UNCHANGED storeVars

\* chunk_documents: all_chunks.extend(chunks)
ChunkDocumentsExtend ==
    /\ ingest.pc = "chunk_document"
    /\ chunker.pc = "done"
    /\ ingest' = [ingest EXCEPT
                    !.all_chunks = @ \o [j \in 1..Len(chunker.result) |->
                                            DocumentChunk(chunker.result[j])],
                    !.k = @ + 1, !.pc = "chunk_documents"]
    /\ UNCHANGED <<storeVars, chunker>>

\* chunk_documents returns all_chunks; the batch loop starts at i = 0
ChunkDocumentsReturn ==
    /\ ingest.pc = "chunk_documents"
    /\ ingest.k > Len(ingest.documents)
    /\ ingest' = [ingest EXCEPT !.pc = "embed", !.i = 0, !.chunked = ingest.all_chunks]
    /\ UNCHANGED <<storeVars, chunker>>

\* one iteration of the batch loop: the embedder raises, or returns a vector
\* for the first items of the texts of the batch
EmbedBatch(raises, missing) ==
    /\ ingest.pc = "embed"
    /\ ingest.i < Len(ingest.all_chunks)
    /\ LET all == ingest.all_chunks
           lo == ingest.i + 1
           hi == Min(ingest.i + ingest.batch_size, Len(all))
           batch == SubSeq(all, lo, hi)
           texts == [j \in 1..Len(batch) |-> batch[j].text]
           embeddings == get_embeddings(texts, Len(texts) - missing)
           embedded == AssignEmbeddings(batch, embeddings)
       IN  /\ missing <= Len(batch)
           /\ ingest' =
                IF raises THEN [ingest EXCEPT !.pc = "aborted", !.failed = TRUE]
                ELSE [ingest EXCEPT
                        !.all_chunks = [j \in 1..Len(all) |->
                                          IF j >= lo /\ j <= hi THEN embedded[j - lo + 1]
                                          ELSE all[j]],
                        !.i = @ + ingest.batch_size,
                        !.failed = @ \/ missing > 0]
    /\ UNCHANGED <<storeVars, chunker>>

\* count = vector_store.add_documents(all_chunks)
AddToStore ==
    /\ ingest.pc = "embed"
    /\ ingest.i >= Len(ingest.all_chunks)
    /\ LET r == add_documents(vs, ingest.all_chunks)
       IN  /\ stores' = [stores EXCEPT ![1] = r.store]
           /\ lastOp' = Op("add_documents", r.ret, r.n, NoArgs, <<>>, FALSE)
           /\ ingest' = IF r.ret = "ok" THEN [ingest EXCEPT !.pc = "save", !.count = r.n]
                        ELSE [ingest EXCEPT !.pc = "aborted"]
    /\ UNCHANGED <<diskVars, savePc, committed, threadVars, chunker>>

\* vector_store.save() has returned: the summary is printed
IngestComplete ==
    /\ ingest.pc = "save"
    /\ savePc = 0
    /\ lastOp.op = "save"
    /\ ingest' = [ingest EXCEPT !.pc = "done"]
    /\ UNCHANGED <<storeVars, chunker>>

\* the documents the loader returns: short files and a file of one long
\* paragraph of sentences
IngestDocs == { <<"a", ".">>, ScenarioDoc({300, 600, 900}) }
DocumentLists == UNION { [1..n -> IngestDocs] : n \in 1..MaxDocs }

\* the batch sizes of the runs
BatchSizes == {2, 3, EMBEDDING_BATCH_SIZE}

\* the index an earlier run left in the index directory
PreviousIndex ==
    add_documents(NewStore(DefaultDim),
        <<[text |-> <<"o", "l", "d">>, metadata |-> Meta(1),
           embedding |-> EmbedText(<<"o", "l", "d">>)]>>).store

InitIngest ==
    /\ stores = <<create_index(NewStore(DefaultDim))>>
    /\ \E previous \in BOOLEAN :
         /\ indexFile = IF previous THEN WriteIndex(PreviousIndex) ELSE AbsentIndexFile
         /\ dataFile = IF previous THEN DumpData(PreviousIndex) ELSE AbsentDataFile
    /\ savePc = 0
    /\ lastOp = Op("create_index", "ok", 0, NoArgs, <<>>, FALSE)
    /\ committed = NoCommit
    /\ g_vector_store = 0
    /\ threads = [t \in Threads |-> IdleThread]
    /\ chunker = NewChunker(CHUNK_SIZE, CHUNK_OVERLAP, <<>>)
    /\ \E documents \in DocumentLists, batch_size \in BatchSizes :
         ingest = NewIngest(documents, batch_size, indexFile, dataFile)

NextIngest ==
    \/ ChunkDocumentsNext
    \/ ingest.pc = "chunk_document" /\ NextChunker
    \/ ChunkDocumentsExtend
    \/ ChunkDocumentsReturn
    \/ \E raises \in BOOLEAN, missing \in 0..1 : EmbedBatch(raises, missing)
    \/ AddToStore
    \/ ingest.pc = "save" /\ lastOp.op # "save" /\ SaveStart
    \/ ingest.pc = "save" /\ SaveIndexDone
    \/ ingest.pc = "save" /\ SaveDataOpen
    \/ ingest.pc = "save" /\ SaveDataDone
    \/ IngestComplete

SpecIngest == InitIngest /\ [][NextIngest]_vars

----------------------------------------------------------------------------
(* Claims about the ingestion run *)

\* C15: after the batch loop and add_documents, the vector, the text and the
\* metadata at every id i are those of the i-th chunk chunk_documents
\* returned, the vector being the embedder's vector for that chunk's text.
C15_IngestionKeepsOrder ==
    ingest.pc \in {"save", "done"} =>
        /\ count(vs) = Len(ingest.chunked)
        /\ ingest.count = Len(ingest.chunked)
        /\ Len(vs.texts) = Len(ingest.chunked)
        /\ Len(vs.metadata) = Len(ingest.chunked)
        /\ \A i \in 1..Len(ingest.chunked) :
              /\ vs.index.vecs[i] = EmbedText(ingest.chunked[i].text)
              /\ vs.texts[i] = ingest.chunked[i].text
              /\ vs.metadata[i] = ingest.chunked[i].metadata

\* a run over five chunks in batches of two (the last batch is partial) has
\* completed
C15_Witness ==
    /\ ingest.pc = "done"
    /\ ingest.batch_size = 2
    /\ Len(ingest.chunked) = 5
    /\ count(vs) = 5

\* C16: once an embedding batch has raised or come back short, the run never
\* reaches save() and the index files stay as the run found them.
C16_FailedBatchAborts ==
    ingest.failed =>
        /\ ingest.pc \notin {"save", "done"}
        /\ savePc = 0
        /\ indexFile = ingest.before[1]
        /\ dataFile = ingest.before[2]

\* a run whose embedder returned too few vectors has been aborted by
\* add_documents, over the index files of an earlier run
C16_Witness ==
    /\ ingest.failed
    /\ ingest.pc = "aborted"
    /\ lastOp.op = "add_documents"
    /\ lastOp.ret = "ValueError"
    /\ indexFile.state = "complete"

----------------------------------------------------------------------------
(* Further claims about FAISSVectorStore *)

\* C17: after every save() that completes, metadata.json holds as many
\* metadata entries and texts as index.faiss holds vectors, entry i being
\* the text and metadata of the chunk of vector i.
C17_SavedArraysMatchIndex ==
    (lastOp.op = "save" /\ lastOp.ret = "ok") =>
        /\ Len(dataFile.metadata) = Len(indexFile.index.vecs)
        /\ Len(dataFile.texts) = Len(indexFile.index.vecs)
        /\ \A i \in 1..Len(indexFile.index.vecs) :
              /\ ChunkOfText(dataFile.texts[i]) = ChunkOfVector(indexFile.index.vecs[i])
              /\ ChunkOfMeta(dataFile.metadata[i]) = ChunkOfVector(indexFile.index.vecs[i])

\* the step is a call of add_documents that returns normally
AddSucceeds ==
    /\ lastOp'.op = "add_documents"
    /\ lastOp'.ret = "ok"
    /\ savePc = 0 /\ savePc' = 0
    /\ <<stores, lastOp>>' # <<stores, lastOp>>

\* C18: a successful add_documents(chunks) on a store of N vectors puts the
\* vector, text and metadata of chunk j at id N + j - 1, returns
\* len(chunks) and leaves the entries below N as they were.
C18_AddAppendsAtDenseIds ==
    [][AddSucceeds =>
        LET chunks == lastOp'.args.chunks
            N == count(vs)
        IN  /\ lastOp'.n = Len(chunks)
            /\ count(vs') = N + Len(chunks)
            /\ Len(vs'.texts) = N + Len(chunks)
            /\ Len(vs'.metadata) = N + Len(chunks)
            /\ \A i \in 1..N :
                  /\ vs'.index.vecs[i] = vs.index.vecs[i]
                  /\ vs'.texts[i] = vs.texts[i]
                  /\ vs'.metadata[i] = vs.metadata[i]
            /\ \A j \in 1..Len(chunks) :
                  /\ vs'.index.vecs[N + j] = chunks[j].embedding
                  /\ vs'.texts[N + j] = chunks[j].text
                  /\ vs'.metadata[N + j] = chunks[j].metadata]_vars

\* the index directories a store may be pointed at: each file is missing or
\* was written by a completed save of an ingested or of an empty index
SavedStores == { IngestedStore, create_index(NewStore(DefaultDim)) }
IndexFiles == {AbsentIndexFile} \cup { WriteIndex(st) : st \in SavedStores }
DataFiles == {AbsentDataFile} \cup { DumpData(st) : st \in SavedStores }

InitLoad ==
    /\ stores = <<NewStore(DefaultDim)>>
    /\ indexFile \in IndexFiles
    /\ dataFile \in DataFiles
    /\ savePc = 0
    /\ lastOp = Op("construct", "ok", 0, NoArgs, <<>>, TRUE)
    /\ committed = NoCommit
    /\ g_vector_store = 0
    /\ threads = [t \in Threads |-> IdleThread]
    /\ chunker = IdleChunker
    /\ ingest = IdleIngest

\* a caller that builds a store in memory and calls load() on it
NextLoad ==
    \/ CreateIndex
    \/ \E chunks \in Batches : AddDocuments(chunks)
    \/ Load

SpecLoad == InitLoad /\ [][NextLoad]_vars

\* the step is a call of load() with index.faiss or metadata.json missing
LoadWithoutFiles ==
    /\ lastOp'.op = "load"
    /\ <<stores, lastOp>>' # <<stores, lastOp>>
    /\ indexFile.state = "absent" \/ dataFile.state = "absent"

\* C19: load() with a file missing returns False, raises nothing and leaves
\* the store as it was; a fresh store keeps index None and count 0.
C19_LoadWithoutFilesReturnsFalse ==
    [][LoadWithoutFiles =>
        /\ lastOp'.ret = "False"
        /\ stores' = stores
        /\ IsFresh(vs) => (vs'.index.none /\ count(vs') = 0)]_vars

\* load() has returned False on a store that holds vectors, with only one
\* of the two files missing
C19_Witness ==
    /\ lastOp.op = "load"
    /\ lastOp.ret = "False"
    /\ count(vs) > 0
    /\ indexFile.state = "complete"
    /\ dataFile.state = "absent"

\* chunks of different text whose embeddings may coincide (the same passage
\* in two documents)
TieChunks ==
    { [text |-> ChunkTexts[i], metadata |-> Meta(i), embedding |-> Embed(e)] :
        i \in 1..Len(ChunkTexts), e \in 1..Len(ChunkTexts) }
TieBatches == UNION { [1..n -> TieChunks] : n \in 1..MaxVecs }

\* a caller that stores such chunks and queries the store
NextTies ==
    \/ \E chunks \in TieBatches : AddDocuments(chunks)
    \/ Clear
    \/ \E q \in Vectors(DefaultDim), k \in 1..(MaxVecs + 1), threshold \in Thresholds :
         Search(q, k, threshold)

SpecTies == Init /\ [][NextTies]_vars

\* the insertion id (from 1) of the stored chunk with text x
IdOfText(x) == CHOOSE i \in 1..Len(vs.texts) : vs.texts[i] = x

\* the ids of the stored vectors identical to q
Identical(q) == { i \in 1..count(vs) : vs.index.vecs[i] = q }

----------------------------------------------------------------------------
(* Further claims about rag_tool *)

\* the value in [1, 10] nearest to k
Clamped(k) == IF k < 1 THEN 1 ELSE IF k > 10 THEN 10 ELSE k

\* C21: whatever integer top_k the caller passes, the store search is asked
\* for min(max(1, top_k), 10) rows, a value in 1..10, and the response holds
\* at most that many results.
C21_TopKClamped ==
    \A t \in Threads :
        threads[t].op = "search" =>
            /\ threads[t].pc # "idle" =>
                  (threads[t].top_k = Clamped(threads[t].asked)
                     /\ threads[t].top_k \in 1..10)
            /\ threads[t].pc = "search_loop" =>
                  Len(threads[t].rows) = Clamped(threads[t].asked)
            /\ threads[t].pc = "idle" =>
                  (Len(threads[t].resp.results) <= Clamped(threads[t].asked)
                     /\ Len(threads[t].resp.results) <= 10)

\* a call that asked for 11 has the 10 rows of the store search in hand,
\* and one that asked for less than 1 has returned its single result
C21_Witness ==
    \E t, u \in Threads :
        /\ threads[t].op = "search" /\ threads[t].asked = 11
        /\ threads[t].pc = "search_loop" /\ Len(threads[t].rows) = 10
        /\ threads[u].op = "search" /\ threads[u].asked < 1
        /\ threads[u].pc = "idle" /\ Len(threads[u].resp.results) = 1

\* C25: while no index exists on disk, every search_oip_documents call that
\* has returned gave status "error" with the index-not-found message, and
\* every get_index_stats call that has returned gave "not_loaded".
C25_MissingIndexAlwaysReported ==
    (indexFile.state = "absent" /\ dataFile.state = "absent") =>
        \A t \in Threads :
            threads[t].pc = "idle" =>
                /\ threads[t].op = "search" =>
                      (threads[t].resp.status = "error"
                         /\ threads[t].resp.message = IndexNotFound)
                /\ threads[t].op = "stats" => threads[t].resp.status = "not_loaded"

----------------------------------------------------------------------------
(* Empty stores and empty batches *)

\* C22: search on a store without vectors (index None, or created and
\* empty) returns the empty list and raises nothing, whatever the query,
\* top_k and threshold.
C22_EmptyStoreSearchEmpty ==
    (lastOp.op = "search" /\ count(vs) = 0) =>
        /\ lastOp.ret = "ok"
        /\ lastOp.results = <<>>

\* searches have returned on a store whose index is None
C22_Witness ==
    /\ lastOp.op = "search"
    /\ vs.index.none
    /\ lastOp.args.k = MaxVecs + 1
    /\ lastOp.args.threshold.num = 0

\* the step is a call add_documents([])
AddsNothing ==
    /\ lastOp'.op = "add_documents"
    /\ lastOp'.args.chunks = <<>>
    /\ <<stores, lastOp>>' # <<stores, lastOp>>

\* what save() would do on store st: it raises without an index
SaveOutcome(st) == IF st.index.none THEN "ValueError" ELSE "ok"

\* C23: add_documents([]) returns 0 and leaves count, texts, metadata and
\* the outcome of every following search and of a following save as they
\* were, also on a store whose index was never created.
C23_EmptyAddIsNoOp ==
    [][AddsNothing =>
        /\ lastOp'.ret = "ok"
        /\ lastOp'.n = 0
        /\ count(vs') = count(vs)
        /\ vs'.texts = vs.texts
        /\ vs'.metadata = vs.metadata
        /\ SameSearches(vs', vs)
        /\ SaveOutcome(vs') = SaveOutcome(vs)]_vars

\* the step is a call of add_documents that raises for a chunk without
\* embedding
AddRaises ==
    /\ lastOp'.op = "add_documents"
    /\ lastOp'.ret = "ValueError"
    /\ <<stores, lastOp>>' # <<stores, lastOp>>

\* C24: an add_documents call that raises because a chunk has no embedding
\* leaves the vector count, the texts and the metadata as before the call.
C24_FailedAddLeavesStore ==
    [][AddRaises =>
        /\ count(vs') = count(vs)
        /\ vs'.texts = vs.texts
        /\ vs'.metadata = vs.metadata]_vars

----------------------------------------------------------------------------
(* Further claims about SemanticChunker *)

\* the step is an iteration of the while loop of _split_with_overlap under
\* 0 <= overlap < chunk_size
WindowStep ==
    /\ chunker.pc = "split"
    /\ chunker'.pc = "split"
    /\ chunker' # chunker
    /\ 0 <= chunker.overlap
    /\ chunker.overlap < chunker.chunk_size

\* C26: under 0 <= overlap < chunk_size every iteration of the sliding
\* window loop strictly increases start (so the loop terminates), also when
\* the window end is moved back to a sentence terminator.
C26_WindowAdvances ==
    [][WindowStep => chunker'.start > chunker.start]_vars

\* the cut the nearest terminator of any kind would give: just after the
\* last of ". ", "! ", "? " and newline that lies past the middle of the
\* window, the raw end where there is none
NearestCut(text, start, chunk_size) ==
    LET end == start + chunk_size
        found == { RFind(text, Separators[i], start, end) : i \in 1..Len(Separators) }
        late == { f \in found : f > start + (chunk_size \div 2) }
    IN  IF late = {} THEN end ELSE SetMax(late) + 1

\* C27: a window that ends before the end of the paragraph is cut just
\* after the terminator nearest to the window end among the terminators of
\* all four kinds in its second half, and at the raw end when there is none.
C27_CutAtNearestTerminator ==
    [][(WindowStep /\ chunker.start + chunker.chunk_size < Len(chunker.text))
          => chunker'.start + chunker.overlap
               = NearestCut(chunker.text, chunker.start, chunker.chunk_size)]_vars

\* an iteration that advances the window over a paragraph without whitespace
\* and appends a chunk after the first
EmitsLaterChunk ==
    /\ WindowStep
    /\ chunker'.start > chunker.start
    /\ chunker.para_chunks # <<>>
    /\ Len(chunker'.para_chunks) > Len(chunker.para_chunks)
    /\ \A i \in 1..Len(chunker.text) : chunker.text[i] \notin Whitespace

\* C30: every chunk that _split_with_overlap emits after the first holds at
\* least one character of the paragraph beyond the end of the preceding
\* chunk: no chunk lies wholly inside the tail of the one before it.
C30_LaterChunkBringsNewText ==
    [][EmitsLaterChunk
          => Strip(Slice(chunker.text, chunker.start + chunker.overlap,
                         chunker'.start + chunker.overlap)) # <<>>]_vars

RECURSIVE JoinParagraphs(_, _)
\* the paragraphs numbered in group, joined by the 2-character separator
JoinParagraphs(paragraphs, group) ==
    IF group = <<>> THEN <<>>
    ELSE IF Len(group) = 1 THEN paragraphs[group[1]]
    ELSE paragraphs[group[1]] \o <<"\n", "\n">> \o JoinParagraphs(paragraphs, Tail(group))

RECURSIVE GreedyGroups(_, _, _, _)
\* the grouping the merge rule prescribes for paragraphs k, k+1, ..., as
\* sequences of paragraph numbers, buffer being the group under way: a
\* paragraph joins the buffer exactly when len(buffer) + len(paragraph) + 2
\* <= chunk_size, otherwise the buffer is closed and the paragraph starts the
\* next one; an oversized paragraph closes the buffer and stands alone
GreedyGroups(paragraphs, k, buffer, chunk_size) ==
    LET closed == IF buffer # <<>> THEN <<buffer>> ELSE <<>>
    IN  IF k > Len(paragraphs) THEN closed
        ELSE IF Len(paragraphs[k]) > chunk_size
        THEN closed \o << <<k>> >> \o GreedyGroups(paragraphs, k + 1, <<>>, chunk_size)
        ELSE IF Len(JoinParagraphs(paragraphs, buffer)) + Len(paragraphs[k]) + 2 <= chunk_size
        THEN GreedyGroups(paragraphs, k + 1, Append(buffer, k), chunk_size)
        ELSE closed \o GreedyGroups(paragraphs, k + 1, <<k>>, chunk_size)

\* chunk is a piece of para
PieceOf(chunk, para) ==
    \E a \in 0..(Len(para) - Len(chunk)) : SubSeq(para, a + 1, a + Len(chunk)) = chunk

RECURSIVE FollowsGroups(_, _, _, _, _, _)
\* chunks i, i+1, ... are the groups g, g+1, ... in order: one chunk, the
\* joined paragraphs, for a group of paragraphs that fit, and one or more
\* pieces of the paragraph for an oversized one
FollowsGroups(chunks, i, groups, g, paragraphs, chunk_size) ==
    IF g > Len(groups) THEN i = Len(chunks) + 1
    ELSE IF Len(paragraphs[groups[g][1]]) > chunk_size
    THEN \E n \in 1..(Len(chunks) - i + 1) :
            /\ \A j \in i..(i + n - 1) : PieceOf(chunks[j], paragraphs[groups[g][1]])
            /\ FollowsGroups(chunks, i + n, groups, g + 1, paragraphs, chunk_size)
    ELSE /\ i <= Len(chunks)
         /\ chunks[i] = JoinParagraphs(paragraphs, groups[g])
         /\ FollowsGroups(chunks, i + 1, groups, g + 1, paragraphs, chunk_size)

\* C28: _merge_and_split joins a paragraph that is not oversized to the
\* running buffer exactly when len(buffer) + len(paragraph) + 2 <=
\* chunk_size, otherwise emits the non-empty buffer and starts the next with
\* the paragraph; an oversized paragraph first flushes the buffer; the
\* trailing buffer is emitted last: the chunks are the greedy groups of the
\* paragraphs, in document order, none dropped.
C28_GreedyMerge ==
    chunker.pc = "done"
        => FollowsGroups(chunker.chunks, 1,
                         GreedyGroups(chunker.paragraphs, 1, <<>>, chunker.chunk_size),
                         1, chunker.paragraphs, chunker.chunk_size)

\* chunk_document has returned for the document of paragraphs of 200, 200,
\* 200, 600 and 100 letters: two are merged, the third did not fit, the
\* oversized one flushed it and was split, the last is the trailing buffer
C28_Witness ==
    /\ chunker.pc = "done"
    /\ chunker.content = ParagraphsDoc
    /\ Len(chunker.paragraphs) = 5
    /\ Len(chunker.chunks) = 5
    /\ Len(chunker.chunks[1]) = 402
    /\ Len(chunker.chunks[2]) = 200
    /\ Len(chunker.chunks[5]) = 100

----------------------------------------------------------------------------
(* Completeness of search *)

\* the score of stored vector i for the query of the last search
StoredScore(i) == Score(L2(vs.index.vecs[i], lastOp.args.q))

\* the stored vectors whose score is at least the threshold of the last search
Qualifying ==
    { i \in 1..count(vs) : ~FracLess(StoredScore(i), lastOp.args.threshold) }

\* C29: search is complete with respect to the whole store: what it returns
\* is the first top_k entries of the list of all stored chunks whose score
\* is >= threshold, sorted by descending score; taking the top_k nearest and
\* filtering afterwards omits no stored chunk that reaches the threshold and
\* scores higher than a returned one.
C29_SearchComplete ==
    (lastOp.op = "search" /\ lastOp.ret = "ok") =>
        LET res == lastOp.results
            k == lastOp.args.k
        IN  /\ Len(res) = IF Cardinality(Qualifying) < k
                          THEN Cardinality(Qualifying) ELSE k
            /\ \A a, b \in 1..Len(res) :
                 a < b => ~FracLess(res[a].score, res[b].score)
            /\ \A j \in 1..Len(res) :
                 /\ \E i \in Qualifying :
                      /\ res[j].score = StoredScore(i)
                      /\ res[j].text = vs.texts[i]
                 /\ Cardinality({ i \in Qualifying :
                                    FracLess(res[j].score, StoredScore(i)) }) < j

\* a search with top_k = 1 has returned the better one of two stored chunks
\* that both reach a threshold above 0
C29_Witness ==
    /\ lastOp.op = "search"
    /\ lastOp.ret = "ok"
    /\ lastOp.args.k = 1
    /\ lastOp.args.threshold.num > 0
    /\ Cardinality(Qualifying) = 2
    /\ Len(lastOp.results) = 1
    /\ \E i \in Qualifying : FracLess(StoredScore(i), lastOp.results[1].score)

====
